---- MODULE Spec2Model ----
(***************************************************************************)
(* Model of backend/app.py: a Flask task/comment service holding two       *)
(* process-wide dicts (tasks, comments) and a JSON backing file that is    *)
(* rewritten by save_data after every successful mutation.                 *)
(*                                                                         *)
(* Strings are sequences of code points, so that str.strip, the string     *)
(* comparison used by list.sort and the JSON quoting are computed.         *)
(* A dict is a sequence of [k, v] entries in insertion order (Python       *)
(* dicts keep insertion order, and json.dump / json.load preserve it).     *)
(* Request payloads are JSON objects whose values are strings.             *)
(***************************************************************************)
EXTENDS Integers, Sequences, FiniteSets, TLC

VARIABLES tasks, comments, file, clock, issued, fails, resp, inflight

vars == <<tasks, comments, file, clock, issued, fails, resp, inflight>>

(***************************************************************************)
(* Bounds of the model.                                                    *)
(***************************************************************************)
MaxIds == 2
MaxClock == 2
MaxFails == 1
MaxThreads == 2

(***************************************************************************)
(* Strings.                                                                *)
(***************************************************************************)
SP == 32
Whitespace == {9, 10, 11, 12, 13, 32}

RECURSIVE LStrip(_)
LStrip(s) ==
    IF s = <<>> THEN <<>>
    ELSE IF Head(s) \in Whitespace THEN LStrip(Tail(s)) ELSE s

RECURSIVE RStrip(_)
RStrip(s) ==
    IF s = <<>> THEN <<>>
    ELSE IF s[Len(s)] \in Whitespace THEN RStrip(SubSeq(s, 1, Len(s) - 1)) ELSE s

\* a check that forgets to trim
Strip_none(s) == s

\* str.strip(): leading and trailing whitespace removed
Strip(s) == RStrip(LStrip(s))

\* "not s.strip()": the string is empty once trimmed
IsBlank(s) == Strip(s) = <<>>

\* Python's str ordering: lexicographic by code point, a proper prefix first
RECURSIVE StrLess(_, _)
StrLess(a, b) ==
    IF b = <<>> THEN FALSE
    ELSE IF a = <<>> THEN TRUE
    ELSE IF Head(a) < Head(b) THEN TRUE
    ELSE IF Head(a) > Head(b) THEN FALSE
    ELSE StrLess(Tail(a), Tail(b))

StrLeq(a, b) == a = b \/ StrLess(a, b)

\* the default author "Anonymous"
Anonymous == <<65, 110, 111, 110, 121, 109, 111, 117, 115>>

(***************************************************************************)
(* Clock and datetime.isoformat().  A time is a number of microseconds.    *)
(* All modelled times lie within one minute, so the common prefix          *)
(* "YYYY-MM-DDTHH:MM:" of the rendered timestamps is left out; what is     *)
(* rendered is "SS[.ffffff]+00:00": isoformat omits the fraction when the  *)
(* microsecond field is 0.                                                 *)
(***************************************************************************)
UsPerSec == 1000000

\* the modelled window starts one microsecond before a full second
ClockStart == UsPerSec - 1
Times == {ClockStart + n : n \in 0..MaxClock}

RECURSIVE Digits(_, _)
Digits(n, width) ==
    IF width = 0 THEN <<>>
    ELSE Digits(n \div 10, width - 1) \o <<48 + (n % 10)>>

UtcOffset == <<43, 48, 48, 58, 48, 48>>

IsoFormat(t) ==
    LET sec == t \div UsPerSec
        us == t % UsPerSec
    IN  Digits(sec, 2)
        \o (IF us = 0 THEN <<>> ELSE <<46>> \o Digits(us, 6))
        \o UtcOffset

\* datetime.now(timezone.utc): a reading of a non-decreasing clock
Now(after) == {t \in Times : t >= after}

(***************************************************************************)
(* Identifiers.  uuid4 never repeats: the n-th identifier issued is the    *)
(* one-character string Uuid(n).  GhostId is a string uuid4 never issues   *)
(* (the tests' 'non-existent-task-id').                                    *)
(***************************************************************************)
Uuid(n) == <<48 + n>>
GhostId == <<48>>
IssuedIds == {Uuid(n) : n \in 1..issued}
PathIds == IssuedIds \cup {GhostId}

(***************************************************************************)
(* Dicts in insertion order.                                               *)
(***************************************************************************)
Keys(d) == {d[i].k : i \in DOMAIN d}
Has(d, key) == key \in Keys(d)
Get(d, key) == d[CHOOSE i \in DOMAIN d : d[i].k = key].v
Values(d) == [i \in DOMAIN d |-> d[i].v]
Pop(d, key) == SelectSeq(d, LAMBDA e : e.k # key)
Put(d, key, val) ==
    IF Has(d, key)
    THEN [i \in DOMAIN d |-> IF d[i].k = key THEN [k |-> key, v |-> val] ELSE d[i]]
    ELSE Append(d, [k |-> key, v |-> val])

\* a delete that forgets the cascade
PopAll_none(d, ids) == d

\* "for key in ids: d.pop(key)"
RECURSIVE PopAll(_, _)
PopAll(d, ids) ==
    IF ids = <<>> THEN d ELSE PopAll(Pop(d, Head(ids)), Tail(ids))

(***************************************************************************)
(* Persistence: json.dump writes an object as a list of name/value pairs   *)
(* with every string quoted; json.load rebuilds the dicts from the pairs.  *)
(***************************************************************************)
Quote == 34

JsonStr(s) == <<Quote>> \o s \o <<Quote>>
UnJsonStr(j) == SubSeq(j, 2, Len(j) - 1)

DumpTask(t) ==
    << <<"id", JsonStr(t.id)>>, <<"title", JsonStr(t.title)>>,
       <<"description", JsonStr(t.description)>>,
       <<"created_at", JsonStr(t.created_at)>> >>

\* a dump that writes created_at where updated_at belongs
DumpComment_stale(c) ==
    << <<"id", JsonStr(c.id)>>, <<"task_id", JsonStr(c.task_id)>>,
       <<"content", JsonStr(c.content)>>, <<"author", JsonStr(c.author)>>,
       <<"created_at", JsonStr(c.created_at)>>,
       <<"updated_at", JsonStr(c.created_at)>> >>

DumpComment(c) ==
    << <<"id", JsonStr(c.id)>>, <<"task_id", JsonStr(c.task_id)>>,
       <<"content", JsonStr(c.content)>>, <<"author", JsonStr(c.author)>>,
       <<"created_at", JsonStr(c.created_at)>>,
       <<"updated_at", JsonStr(c.updated_at)>> >>

json_dump(ts, cs) ==
    [tasks |-> [i \in DOMAIN ts |-> <<JsonStr(ts[i].k), DumpTask(ts[i].v)>>],
     comments |-> [i \in DOMAIN cs |-> <<JsonStr(cs[i].k), DumpComment(cs[i].v)>>]]

\* value of the member called name in a parsed object
Member(pairs, name) ==
    UnJsonStr(pairs[CHOOSE i \in DOMAIN pairs : pairs[i][1] = name][2])

LoadTask(pairs) ==
    [id |-> Member(pairs, "id"), title |-> Member(pairs, "title"),
     description |-> Member(pairs, "description"),
     created_at |-> Member(pairs, "created_at")]

LoadComment(pairs) ==
    [id |-> Member(pairs, "id"), task_id |-> Member(pairs, "task_id"),
     content |-> Member(pairs, "content"), author |-> Member(pairs, "author"),
     created_at |-> Member(pairs, "created_at"),
     updated_at |-> Member(pairs, "updated_at")]

\* a parsed object of objects becomes a dict, member by member
RECURSIVE LoadTasks(_, _)
LoadTasks(members, acc) ==
    IF members = <<>> THEN acc
    ELSE LoadTasks(Tail(members),
                   Put(acc, UnJsonStr(Head(members)[1]), LoadTask(Head(members)[2])))

RECURSIVE LoadComments(_, _)
LoadComments(members, acc) ==
    IF members = <<>> THEN acc
    ELSE LoadComments(Tail(members),
                      Put(acc, UnJsonStr(Head(members)[1]), LoadComment(Head(members)[2])))

json_load(doc) ==
    [tasks |-> LoadTasks(doc.tasks, <<>>),
     comments |-> LoadComments(doc.comments, <<>>)]

EmptyDoc == [tasks |-> <<>>, comments |-> <<>>]
NoFile == [kind |-> "absent", doc |-> EmptyDoc]
\* what a write that fails part-way leaves: open(..., 'w') has truncated the
\* file and the text written so far is not a complete JSON document
Truncated == [kind |-> "malformed", doc |-> EmptyDoc]
SavedFile(ts, cs) == [kind |-> "json", doc |-> json_dump(ts, cs)]

\* the in-memory dicts a process start obtains from the file
load_data(f) ==
    IF f.kind = "json" THEN json_load(f.doc)
    ELSE [tasks |-> <<>>, comments |-> <<>>]

SaveOutcomes == {"ok", "open_failed", "write_failed"}

\* a save that writes nothing
save_data_skipped(ts, cs, outcome) ==
    /\ outcome = "ok" \/ fails < MaxFails
    /\ file' = file
    /\ fails' = IF outcome = "ok" THEN fails ELSE fails + 1

\* a save that tries again when the file could not be opened
save_data_retried(ts, cs, outcome) ==
    /\ outcome = "ok" \/ fails < MaxFails
    /\ file' = CASE outcome = "ok" -> SavedFile(ts, cs)
                 [] outcome = "open_failed" -> SavedFile(ts, cs)
                 [] outcome = "write_failed" -> Truncated
    /\ fails' = IF outcome = "ok" THEN fails ELSE fails + 1

\* save_data: overwrite the file with the given state; an exception is
\* printed and swallowed, leaving the file untouched (open failed) or
\* truncated (write failed)
save_data(ts, cs, outcome) ==
    /\ outcome = "ok" \/ fails < MaxFails
    /\ file' = CASE outcome = "ok" -> SavedFile(ts, cs)
                 [] outcome = "open_failed" -> file
                 [] outcome = "write_failed" -> Truncated
    /\ fails' = IF outcome = "ok" THEN fails ELSE fails + 1

(***************************************************************************)
(* Requests.                                                               *)
(***************************************************************************)
TitleInputs == {<<SP>>, <<97, SP>>}
DescriptionInputs == {<<>>, <<100>>}
ContentInputs == {<<SP>>, <<SP, 99>>}
AuthorInputs == {<<120>>}
OtherInputs == {<<122>>}

InputsFor(key) ==
    CASE key = "title" -> TitleInputs
      [] key = "description" -> DescriptionInputs
      [] key = "content" -> ContentInputs
      [] key = "author" -> AuthorInputs
      [] OTHER -> OtherInputs

TaskKeys == {"title", "description"}
CommentKeys == {"content", "author", "other"}

\* JSON objects over the given keys (the empty object included)
Payloads(keys) ==
    UNION {{d \in [K -> UNION {InputsFor(k) : k \in keys}] :
               \A k \in K : d[k] \in InputsFor(k)} : K \in SUBSET keys}

\* "not data"
Falsy(data) == DOMAIN data = {}

\* dict.get(key, default)
GetOr(data, key, default) == IF key \in DOMAIN data THEN data[key] ELSE default

Response(op, id, data, status, error, body, save) ==
    [op |-> op, id |-> id, data |-> data, status |-> status,
     error |-> error, body |-> body, save |-> save]

NoData == <<>>

\* no request is in progress
Idle == Response("idle", <<>>, NoData, 0, "", <<>>, "none")

\* the threads of the server that handle delete requests step by step
Threads == 1..MaxThreads

\* a thread that handles no request
NoRequest == [pc |-> "idle", op |-> "none", id |-> <<>>, ids |-> <<>>, status |-> 0]

Init ==
    /\ tasks = <<>>
    /\ comments = <<>>
    /\ file = NoFile
    /\ clock = ClockStart
    /\ issued = 0
    /\ fails = 0
    /\ resp = Idle
    /\ inflight = [t \in Threads |-> NoRequest]

\* a request that is answered without touching the store or the file
Answer(r) ==
    /\ resp' = r
    /\ UNCHANGED <<tasks, comments, file, clock, issued, fails>>

get_all_tasks ==
    Answer(Response("get_all_tasks", <<>>, NoData, 200, "", Values(tasks), "none"))

create_task(data, outcome) ==
    IF Falsy(data) \/ "title" \notin DOMAIN data
    THEN Answer(Response("create_task", <<>>, data, 400, "Title is required", <<>>, "none"))
    ELSE /\ issued < MaxIds
         /\ \E t \in Now(clock) :
              LET task_id == Uuid(issued + 1)
                  task == [id |-> task_id,
                           title |-> data["title"],
                           description |-> GetOr(data, "description", <<>>),
                           created_at |-> IsoFormat(t)]
              IN  /\ tasks' = Put(tasks, task_id, task)
                  /\ clock' = t
                  /\ issued' = issued + 1
                  /\ save_data(tasks', comments, outcome)
                  /\ resp' = Response("create_task", <<>>, data, 201, "", <<task>>, outcome)
                  /\ UNCHANGED comments

get_task_response(ts, task_id) ==
    IF ~Has(ts, task_id)
    THEN Response("get_task", task_id, NoData, 404, "Task not found", <<>>, "none")
    ELSE Response("get_task", task_id, NoData, 200, "", <<Get(ts, task_id)>>, "none")

get_task(task_id) == Answer(get_task_response(tasks, task_id))

\* an update that takes an absent description for the empty string
update_task_reset(task_id, data, outcome) ==
    IF ~Has(tasks, task_id)
    THEN Answer(Response("update_task", task_id, data, 404, "Task not found", <<>>, "none"))
    ELSE IF Falsy(data)
    THEN Answer(Response("update_task", task_id, data, 400, "No data provided", <<>>, "none"))
    ELSE IF "title" \in DOMAIN data /\ IsBlank(data["title"])
    THEN Answer(Response("update_task", task_id, data, 400, "Title cannot be empty", <<>>, "none"))
    ELSE LET old == Get(tasks, task_id)
             task == [old EXCEPT
                         !.title = GetOr(data, "title", @),
                         !.description = GetOr(data, "description", <<>>)]
         IN  /\ tasks' = Put(tasks, task_id, task)
             /\ save_data(tasks', comments, outcome)
             /\ resp' = Response("update_task", task_id, data, 200, "", <<task>>, outcome)
             /\ UNCHANGED <<comments, clock, issued>>

update_task(task_id, data, outcome) ==
    IF ~Has(tasks, task_id)
    THEN Answer(Response("update_task", task_id, data, 404, "Task not found", <<>>, "none"))
    ELSE IF Falsy(data)
    THEN Answer(Response("update_task", task_id, data, 400, "No data provided", <<>>, "none"))
    ELSE IF "title" \in DOMAIN data /\ IsBlank(data["title"])
    THEN Answer(Response("update_task", task_id, data, 400, "Title cannot be empty", <<>>, "none"))
    ELSE LET old == Get(tasks, task_id)
             task == [old EXCEPT
                         !.title = GetOr(data, "title", @),
                         !.description = GetOr(data, "description", @)]
         IN  /\ tasks' = Put(tasks, task_id, task)
             /\ save_data(tasks', comments, outcome)
             /\ resp' = Response("update_task", task_id, data, 200, "", <<task>>, outcome)
             /\ UNCHANGED <<comments, clock, issued>>

delete_task(task_id, outcome) ==
    IF ~Has(tasks, task_id)
    THEN Answer(Response("delete_task", task_id, NoData, 404, "Task not found", <<>>, "none"))
    ELSE LET deleted_task == Get(tasks, task_id)
             task_comment_ids ==
                 Values(SelectSeq(comments, LAMBDA c : c.v.task_id = task_id))
         IN  /\ tasks' = Pop(tasks, task_id)
             /\ comments' = PopAll(comments, [i \in DOMAIN task_comment_ids |-> task_comment_ids[i].id])
             /\ save_data(tasks', comments', outcome)
             /\ resp' = Response("delete_task", task_id, NoData, 200, "", <<deleted_task>>, outcome)
             /\ UNCHANGED <<clock, issued>>

\* the comments of one task, in dict order
get_comments_by_task(cs, task_id) ==
    SelectSeq(Values(cs), LAMBDA c : c.task_id = task_id)

\* a sort without reverse=True: oldest first
RECURSIVE InsertDesc_ascending(_, _)
InsertDesc_ascending(sorted, c) ==
    IF sorted = <<>> THEN <<c>>
    ELSE IF StrLess(c.created_at, Head(sorted).created_at)
         THEN <<c>> \o sorted
         ELSE <<Head(sorted)>> \o InsertDesc_ascending(Tail(sorted), c)

\* list.sort(key=created_at, reverse=True): a stable sort, so comments with
\* equal keys keep their relative order
RECURSIVE InsertDesc(_, _)
InsertDesc(sorted, c) ==
    IF sorted = <<>> THEN <<c>>
    ELSE IF StrLess(Head(sorted).created_at, c.created_at)
         THEN <<c>> \o sorted
         ELSE <<Head(sorted)>> \o InsertDesc(Tail(sorted), c)

RECURSIVE SortDesc(_, _)
SortDesc(list, sorted) ==
    IF list = <<>> THEN sorted
    ELSE SortDesc(Tail(list), InsertDesc(sorted, Head(list)))

\* the list-by-task envelope
get_comments_response(cs, task_id) ==
    LET task_comments == SortDesc(get_comments_by_task(cs, task_id), <<>>)
    IN  Response("get_comments", task_id, NoData, 200, "",
                 <<[task_id |-> task_id,
                    comments |-> task_comments,
                    count |-> Len(task_comments)]>>, "none")

\* a create that refuses a task id that is not in tasks
create_comment_checked(task_id, data, outcome) ==
    IF ~Has(tasks, task_id)
    THEN Answer(Response("create_comment", task_id, data, 404, "Task not found", <<>>, "none"))
    ELSE IF Falsy(data) \/ "content" \notin DOMAIN data
    THEN Answer(Response("create_comment", task_id, data, 400, "Content is required", <<>>, "none"))
    ELSE IF IsBlank(data["content"])
    THEN Answer(Response("create_comment", task_id, data, 400, "Content cannot be empty", <<>>, "none"))
    ELSE /\ issued < MaxIds
         /\ \E t1 \in Now(clock) : \E t2 \in Now(t1) :
              LET comment_id == Uuid(issued + 1)
                  comment == [id |-> comment_id,
                              task_id |-> task_id,
                              content |-> data["content"],
                              author |-> GetOr(data, "author", Anonymous),
                              created_at |-> IsoFormat(t1),
                              updated_at |-> IsoFormat(t2)]
              IN  /\ comments' = Put(comments, comment_id, comment)
                  /\ clock' = t2
                  /\ issued' = issued + 1
                  /\ save_data(tasks, comments', outcome)
                  /\ resp' = Response("create_comment", task_id, data, 201, "", <<comment>>, outcome)
                  /\ UNCHANGED tasks

create_comment(task_id, data, outcome) ==
    IF Falsy(data) \/ "content" \notin DOMAIN data
    THEN Answer(Response("create_comment", task_id, data, 400, "Content is required", <<>>, "none"))
    ELSE IF IsBlank(data["content"])
    THEN Answer(Response("create_comment", task_id, data, 400, "Content cannot be empty", <<>>, "none"))
    ELSE /\ issued < MaxIds
         /\ \E t1 \in Now(clock) : \E t2 \in Now(t1) :
              LET comment_id == Uuid(issued + 1)
                  comment == [id |-> comment_id,
                              task_id |-> task_id,
                              content |-> data["content"],
                              author |-> GetOr(data, "author", Anonymous),
                              created_at |-> IsoFormat(t1),
                              updated_at |-> IsoFormat(t2)]
              IN  /\ comments' = Put(comments, comment_id, comment)
                  /\ clock' = t2
                  /\ issued' = issued + 1
                  /\ save_data(tasks, comments', outcome)
                  /\ resp' = Response("create_comment", task_id, data, 201, "", <<comment>>, outcome)
                  /\ UNCHANGED tasks

get_comments(task_id) == Answer(get_comments_response(comments, task_id))

get_comment(comment_id) ==
    IF ~Has(comments, comment_id)
    THEN Answer(Response("get_comment", comment_id, NoData, 404, "Comment not found", <<>>, "none"))
    ELSE Answer(Response("get_comment", comment_id, NoData, 200, "",
                         <<Get(comments, comment_id)>>, "none"))

\* an update that stores the author before it validates the content
update_comment_eager(comment_id, data, outcome) ==
    IF ~Has(comments, comment_id)
    THEN Answer(Response("update_comment", comment_id, data, 404, "Comment not found", <<>>, "none"))
    ELSE IF Falsy(data)
    THEN Answer(Response("update_comment", comment_id, data, 400, "No data provided", <<>>, "none"))
    ELSE IF "content" \in DOMAIN data /\ IsBlank(data["content"])
    THEN LET old == Get(comments, comment_id)
             comment == [old EXCEPT !.author = GetOr(data, "author", @)]
         IN  /\ comments' = Put(comments, comment_id, comment)
             /\ resp' = Response("update_comment", comment_id, data, 400,
                                 "Content cannot be empty", <<>>, "none")
             /\ UNCHANGED <<tasks, file, clock, issued, fails>>
    ELSE \E t \in Now(clock) :
           LET old == Get(comments, comment_id)
               comment == [old EXCEPT
                              !.content = GetOr(data, "content", @),
                              !.author = GetOr(data, "author", @),
                              !.updated_at = IsoFormat(t)]
           IN  /\ comments' = Put(comments, comment_id, comment)
               /\ clock' = t
               /\ save_data(tasks, comments', outcome)
               /\ resp' = Response("update_comment", comment_id, data, 200, "", <<comment>>, outcome)
               /\ UNCHANGED <<tasks, issued>>

\* an update that refreshes updated_at only when a field is supplied
update_comment_lazy(comment_id, data, outcome) ==
    IF ~Has(comments, comment_id)
    THEN Answer(Response("update_comment", comment_id, data, 404, "Comment not found", <<>>, "none"))
    ELSE IF Falsy(data)
    THEN Answer(Response("update_comment", comment_id, data, 400, "No data provided", <<>>, "none"))
    ELSE IF "content" \in DOMAIN data /\ IsBlank(data["content"])
    THEN Answer(Response("update_comment", comment_id, data, 400, "Content cannot be empty", <<>>, "none"))
    ELSE \E t \in Now(clock) :
           LET old == Get(comments, comment_id)
               touched == DOMAIN data \cap {"content", "author"} # {}
               comment == [old EXCEPT
                              !.content = GetOr(data, "content", @),
                              !.author = GetOr(data, "author", @),
                              !.updated_at = IF touched THEN IsoFormat(t) ELSE @]
           IN  /\ comments' = Put(comments, comment_id, comment)
               /\ clock' = t
               /\ save_data(tasks, comments', outcome)
               /\ resp' = Response("update_comment", comment_id, data, 200, "", <<comment>>, outcome)
               /\ UNCHANGED <<tasks, issued>>

update_comment(comment_id, data, outcome) ==
    IF ~Has(comments, comment_id)
    THEN Answer(Response("update_comment", comment_id, data, 404, "Comment not found", <<>>, "none"))
    ELSE IF Falsy(data)
    THEN Answer(Response("update_comment", comment_id, data, 400, "No data provided", <<>>, "none"))
    ELSE IF "content" \in DOMAIN data /\ IsBlank(data["content"])
    THEN Answer(Response("update_comment", comment_id, data, 400, "Content cannot be empty", <<>>, "none"))
    ELSE \E t \in Now(clock) :
           LET old == Get(comments, comment_id)
               comment == [old EXCEPT
                              !.content = GetOr(data, "content", @),
                              !.author = GetOr(data, "author", @),
                              !.updated_at = IsoFormat(t)]
           IN  /\ comments' = Put(comments, comment_id, comment)
               /\ clock' = t
               /\ save_data(tasks, comments', outcome)
               /\ resp' = Response("update_comment", comment_id, data, 200, "", <<comment>>, outcome)
               /\ UNCHANGED <<tasks, issued>>

delete_comment(comment_id, outcome) ==
    IF ~Has(comments, comment_id)
    THEN Answer(Response("delete_comment", comment_id, NoData, 404, "Comment not found", <<>>, "none"))
    ELSE LET deleted_comment == Get(comments, comment_id)
         IN  /\ comments' = Pop(comments, comment_id)
             /\ save_data(tasks, comments', outcome)
             /\ resp' = Response("delete_comment", comment_id, NoData, 200, "",
                                 <<deleted_comment>>, outcome)
             /\ UNCHANGED <<tasks, clock, issued>>

\* the body carries the timestamp; the store and the file are not touched
health_check ==
    \E t \in Now(clock) :
       /\ clock' = t
       /\ resp' = Response("health_check", <<>>, NoData, 200, "", <<IsoFormat(t)>>, "none")
       /\ UNCHANGED <<tasks, comments, file, issued, fails>>

\* a process restart: the module-level dicts start empty and load_data
\* fills them from the file
Restart ==
    /\ tasks' = load_data(file).tasks
    /\ comments' = load_data(file).comments
    /\ resp' = Response("load_data", <<>>, NoData, 0, "", <<>>, "none")
    /\ UNCHANGED <<file, clock, issued, fails>>

\* requests are served one at a time: the response of the request in
\* progress goes out to the client before the next request is taken
Deliver ==
    /\ resp' = Idle
    /\ UNCHANGED <<tasks, comments, file, clock, issued, fails>>

\* a request handled in one piece: it is taken only when none is in
\* progress, and no thread is involved
Sequential == resp = Idle /\ UNCHANGED inflight

Next ==
    \/ Sequential /\ get_all_tasks
    \/ Sequential /\ \E data \in Payloads(TaskKeys), outcome \in SaveOutcomes :
                        create_task(data, outcome)
    \/ Sequential /\ \E task_id \in PathIds : get_task(task_id)
    \/ Sequential /\ \E task_id \in PathIds, data \in Payloads(TaskKeys),
                           outcome \in SaveOutcomes :
                        update_task(task_id, data, outcome)
    \/ Sequential /\ \E task_id \in PathIds, outcome \in SaveOutcomes :
                        delete_task(task_id, outcome)
    \/ Sequential /\ \E task_id \in PathIds, data \in Payloads(CommentKeys),
                           outcome \in SaveOutcomes :
                        create_comment(task_id, data, outcome)
    \/ Sequential /\ \E task_id \in PathIds : get_comments(task_id)
    \/ Sequential /\ \E comment_id \in PathIds : get_comment(comment_id)
    \/ Sequential /\ \E comment_id \in PathIds, data \in Payloads(CommentKeys),
                           outcome \in SaveOutcomes :
                        update_comment(comment_id, data, outcome)
    \/ Sequential /\ \E comment_id \in PathIds, outcome \in SaveOutcomes :
                        delete_comment(comment_id, outcome)
    \/ Sequential /\ health_check
    \/ Sequential /\ Restart
    \/ resp # Idle /\ Deliver /\ UNCHANGED inflight

Spec == Init /\ [][Next]_vars

(***************************************************************************)
(* Delete requests handled by threads.  No lock protects the dicts, so a   *)
(* thread can be interrupted between two statements of a handler: each     *)
(* statement of delete_comment and delete_task that touches the dicts is   *)
(* a step of its own.  dict.pop of a key that is gone raises KeyError,     *)
(* which no handler catches: the request is answered 500.                  *)
(***************************************************************************)
Others == <<tasks, comments, file, clock, issued, fails, resp>>

At(t, pc, op) == inflight[t].pc = pc /\ inflight[t].op = op

Goto(t, pc) == inflight' = [inflight EXCEPT ![t].pc = pc]

Finish(t, status) ==
    inflight' = [inflight EXCEPT ![t].pc = "done", ![t].status = status]

\* comment = comments.get(comment_id); 404 when there is none
delete_comment_get(t, comment_id) ==
    /\ inflight[t].pc = "idle"
    /\ inflight' = [inflight EXCEPT ![t] =
          IF Has(comments, comment_id)
          THEN [NoRequest EXCEPT !.pc = "pop", !.op = "delete_comment", !.id = comment_id]
          ELSE [NoRequest EXCEPT !.pc = "done", !.op = "delete_comment",
                                 !.id = comment_id, !.status = 404]]
    /\ UNCHANGED Others

\* deleted_comment = comments.pop(comment_id)
delete_comment_pop(t) ==
    /\ At(t, "pop", "delete_comment")
    /\ IF Has(comments, inflight[t].id)
       THEN comments' = Pop(comments, inflight[t].id) /\ Goto(t, "save")
       ELSE comments' = comments /\ Finish(t, 500)
    /\ UNCHANGED <<tasks, file, clock, issued, fails, resp>>

\* save_data() and the 200 response
delete_comment_save(t, outcome) ==
    /\ At(t, "save", "delete_comment")
    /\ save_data(tasks, comments, outcome)
    /\ Finish(t, 200)
    /\ UNCHANGED <<tasks, comments, clock, issued, resp>>

\* task = tasks.get(task_id); 404 when there is none
delete_task_get(t, task_id) ==
    /\ inflight[t].pc = "idle"
    /\ inflight' = [inflight EXCEPT ![t] =
          IF Has(tasks, task_id)
          THEN [NoRequest EXCEPT !.pc = "pop", !.op = "delete_task", !.id = task_id]
          ELSE [NoRequest EXCEPT !.pc = "done", !.op = "delete_task",
                                 !.id = task_id, !.status = 404]]
    /\ UNCHANGED Others

\* deleted_task = tasks.pop(task_id)
delete_task_pop(t) ==
    /\ At(t, "pop", "delete_task")
    /\ IF Has(tasks, inflight[t].id)
       THEN tasks' = Pop(tasks, inflight[t].id) /\ Goto(t, "collect")
       ELSE tasks' = tasks /\ Finish(t, 500)
    /\ UNCHANGED <<comments, file, clock, issued, fails, resp>>

\* task_comment_ids = [c_id for c_id, c in comments.items() if ...]
delete_task_collect(t) ==
    /\ At(t, "collect", "delete_task")
    /\ LET task_comments == SelectSeq(comments, LAMBDA c : c.v.task_id = inflight[t].id)
       IN  inflight' = [inflight EXCEPT
                           ![t].pc = "cascade",
                           ![t].ids = [i \in DOMAIN task_comments |-> task_comments[i].k]]
    /\ UNCHANGED Others

\* one turn of "for c_id in task_comment_ids: comments.pop(c_id)"
delete_task_cascade(t) ==
    /\ At(t, "cascade", "delete_task")
    /\ inflight[t].ids # <<>>
    /\ IF Has(comments, Head(inflight[t].ids))
       THEN /\ comments' = Pop(comments, Head(inflight[t].ids))
            /\ inflight' = [inflight EXCEPT ![t].ids = Tail(@)]
       ELSE comments' = comments /\ Finish(t, 500)
    /\ UNCHANGED <<tasks, file, clock, issued, fails, resp>>

\* save_data() and the 200 response, once the loop is over
delete_task_save(t, outcome) ==
    /\ At(t, "cascade", "delete_task")
    /\ inflight[t].ids = <<>>
    /\ save_data(tasks, comments, outcome)
    /\ Finish(t, 200)
    /\ UNCHANGED <<tasks, comments, clock, issued, resp>>

\* the response goes out and the thread is free again
Return(t) ==
    /\ inflight[t].pc = "done"
    /\ inflight' = [inflight EXCEPT ![t] = NoRequest]
    /\ UNCHANGED Others

\* creates are handled in one piece; deletes run on the threads; the
\* saves of this specification succeed (failing saves are those of Spec)
NextThreads ==
    \/ Sequential /\ \E data \in Payloads(TaskKeys) : create_task(data, "ok")
    \/ Sequential /\ \E task_id \in PathIds, data \in Payloads(CommentKeys) :
                        create_comment(task_id, data, "ok")
    \/ resp # Idle /\ Deliver /\ UNCHANGED inflight
    \/ \E t \in Threads, comment_id \in PathIds : delete_comment_get(t, comment_id)
    \/ \E t \in Threads : delete_comment_pop(t)
    \/ \E t \in Threads : delete_comment_save(t, "ok")
    \/ \E t \in Threads, task_id \in PathIds : delete_task_get(t, task_id)
    \/ \E t \in Threads : delete_task_pop(t)
    \/ \E t \in Threads : delete_task_collect(t)
    \/ \E t \in Threads : delete_task_cascade(t)
    \/ \E t \in Threads : delete_task_save(t, "ok")
    \/ \E t \in Threads : Return(t)

SpecThreads == Init /\ [][NextThreads]_vars

(***************************************************************************)
(* Vocabulary of the properties.                                           *)
(***************************************************************************)
ReadOps == {"get_all_tasks", "get_task", "get_comments", "get_comment", "health_check"}
WriteOps == {"create_task", "update_task", "delete_task",
             "create_comment", "update_comment", "delete_comment"}
Succeeded(r) == r.status \in {200, 201}
SaveFailed(r) == r.save \in {"open_failed", "write_failed"}

\* the file holds exactly the given mappings (no file yet: nothing stored)
FileHolds(f, ts, cs) ==
    IF f.kind = "absent" THEN ts = <<>> /\ cs = <<>>
    ELSE f = SavedFile(ts, cs)

\* C1: a successful delete of task T removes T and every comment of T,
\* leaves every other task and comment as it was, and afterwards
\* list-by-task for T counts 0 and get-task T answers 404
C1_DeleteTaskCascades ==
    [][(resp'.op = "delete_task" /\ resp'.status = 200) =>
         LET T == resp'.id
         IN  /\ Has(tasks, T)
             /\ ~Has(tasks', T)
             /\ \A i \in DOMAIN comments' : comments'[i].v.task_id # T
             /\ tasks' = SelectSeq(tasks, LAMBDA e : e.k # T)
             /\ comments' = SelectSeq(comments, LAMBDA e : e.v.task_id # T)
             /\ get_comments_response(comments', T).body[1].count = 0
             /\ get_task_response(tasks', T).status = 404]_vars

\* the save of the delete failed at open, so the file still shows the store
\* as it was before the delete: a comment of the deleted task, now gone
C1_Witness ==
    /\ resp.op = "delete_task" /\ resp.status = 200
    /\ resp.save = "open_failed"
    /\ file.kind = "json"
    /\ \E i \in DOMAIN file.doc.comments :
          Member(file.doc.comments[i][2], "task_id") = resp.id
    /\ comments = <<>>

\* C2: while no save has failed the file holds exactly the in-memory
\* mappings; every successful mutation rewrites it with the full current
\* state, and read requests never write it
C2_FileTracksMemory ==
    [][/\ fails' = 0 => FileHolds(file', tasks', comments')
       /\ (resp'.op \in WriteOps /\ Succeeded(resp') /\ fails' = 0) =>
             /\ resp'.save = "ok"
             /\ file' = SavedFile(tasks', comments')
       /\ resp'.op \in ReadOps => file' = file]_vars

C2_Witness ==
    /\ fails = 0
    /\ resp.op = "update_comment" /\ resp.status = 200
    /\ Len(tasks) = 1 /\ Len(comments) = 1
    /\ file = SavedFile(tasks, comments)

\* C3: saving any reachable store and loading it again yields the same
\* mappings, and a restart on the file saved from the store restores it
C3_RoundTrip ==
    [][/\ load_data(SavedFile(tasks', comments')) = [tasks |-> tasks', comments |-> comments']
       /\ (resp'.op = "load_data" /\ file = SavedFile(tasks, comments)) =>
             (tasks' = tasks /\ comments' = comments)]_vars

C3_Witness ==
    /\ resp.op = "load_data"
    /\ file = SavedFile(tasks, comments)
    /\ Len(tasks) = 1 /\ Len(comments) = 1
    /\ comments[1].v.updated_at # comments[1].v.created_at
\* a string that is empty once trimmed: nothing but whitespace
Blank(s) == \A i \in DOMAIN s : s[i] \in Whitespace

\* the time a rendered timestamp stands for, in microseconds
RECURSIVE DigitsValue(_)
DigitsValue(ds) ==
    IF ds = <<>> THEN 0 ELSE 10 * DigitsValue(SubSeq(ds, 1, Len(ds) - 1)) + (ds[Len(ds)] - 48)

IsoTime(s) ==
    DigitsValue(SubSeq(s, 1, 2)) * UsPerSec
    + (IF s[3] = 46 THEN DigitsValue(SubSeq(s, 4, 9)) ELSE 0)

\* C4: a whitespace-only title is answered 400 by task create and by task
\* update, so every stored task has a title that is non-empty once trimmed
C4_TitlesNonBlank ==
    /\ \A i \in DOMAIN tasks : ~Blank(tasks[i].v.title)
    /\ (/\ resp.op \in {"create_task", "update_task"}
        /\ "title" \in DOMAIN resp.data
        /\ resp.status # 404)
       => (Blank(resp.data["title"]) => resp.status = 400)

\* C5: comment create answers 400 'Content is required' without a content
\* key and 400 'Content cannot be empty' for a blank content, comment update
\* of an existing comment answers 400 'Content cannot be empty' for a blank
\* content, and every stored comment has a content that is non-empty once
\* trimmed
C5_ContentNonBlank ==
    /\ \A i \in DOMAIN comments : ~Blank(comments[i].v.content)
    /\ resp.op = "create_comment" =>
          IF "content" \notin DOMAIN resp.data
          THEN resp.status = 400 /\ resp.error = "Content is required"
          ELSE Blank(resp.data["content"]) =>
                  resp.status = 400 /\ resp.error = "Content cannot be empty"
    /\ (/\ resp.op = "update_comment"
        /\ resp.status # 404
        /\ "content" \in DOMAIN resp.data)
       => (Blank(resp.data["content"]) =>
              resp.status = 400 /\ resp.error = "Content cannot be empty")

C5_Witness ==
    /\ resp.op = "update_comment"
    /\ resp.error = "Content cannot be empty"
    /\ "author" \in DOMAIN resp.data
    /\ Len(comments) = 2

\* C6: list-by-task for any id X answers 200 with exactly the stored comments
\* whose task_id is X, count being their number, most recent first
C6_ListByTask ==
    resp.op = "get_comments" =>
       LET X == resp.id
           envelope == resp.body[1]
           list == envelope.comments
           stored == {comments[i].v : i \in DOMAIN comments}
       IN  /\ resp.status = 200
           /\ envelope.task_id = X
           /\ {list[i] : i \in DOMAIN list} = {c \in stored : c.task_id = X}
           /\ Len(list) = Cardinality({c \in stored : c.task_id = X})
           /\ envelope.count = Len(list)
           /\ \A i, j \in DOMAIN list :
                 i < j => /\ StrLeq(list[j].created_at, list[i].created_at)
                          /\ IsoTime(list[j].created_at) <= IsoTime(list[i].created_at)

\* two comments of one task, listed in the reverse of their dict order
C6_Witness ==
    /\ resp.op = "get_comments"
    /\ resp.body[1].count = 2
    /\ Len(comments) = 2
    /\ resp.body[1].comments[1] = comments[2].v
    /\ comments[1].v.created_at # comments[2].v.created_at

\* C7: comment create with a non-blank content answers 201 and stores a
\* comment carrying the task id of the path, whatever that id is
C7_NoTaskCheck ==
    (/\ resp.op = "create_comment"
     /\ "content" \in DOMAIN resp.data)
    => (~Blank(resp.data["content"]) =>
          /\ resp.status = 201
          /\ resp.body[1].task_id = resp.id
          /\ Has(comments, resp.body[1].id)
          /\ Get(comments, resp.body[1].id) = resp.body[1])

\* a comment was just stored under a task id that is not in tasks
C7_Witness ==
    /\ resp.op = "create_comment" /\ resp.status = 201
    /\ ~Has(tasks, resp.id)
    /\ \E i \in DOMAIN comments : comments[i].v.task_id = resp.id

\* C8: an update of an existing comment with a non-empty payload and no
\* blank content succeeds and sets updated_at to the time read, never earlier
\* than the previous value; unrecognized keys alone leave content and author
\* as they were; id, task_id and created_at of a comment never change
C8_UpdateRefreshes ==
    [][/\ resp'.op = "update_comment" =>
             LET id == resp'.id
                 data == resp'.data
                 valid == /\ Has(comments, id)
                          /\ DOMAIN data # {}
                          /\ "content" \in DOMAIN data => ~Blank(data["content"])
             IN  /\ valid <=> resp'.status = 200
                 /\ valid =>
                       LET old == Get(comments, id)
                           new == Get(comments', id)
                       IN  /\ clock' >= clock
                           /\ new.updated_at = IsoFormat(clock')
                           /\ StrLeq(old.updated_at, new.updated_at)
                           /\ IsoTime(old.updated_at) <= IsoTime(new.updated_at)
                           /\ DOMAIN data \cap {"content", "author"} = {} =>
                                 new.content = old.content /\ new.author = old.author
       /\ \A k \in Keys(comments) \cap Keys(comments') :
             /\ Get(comments', k).id = Get(comments, k).id
             /\ Get(comments', k).task_id = Get(comments, k).task_id
             /\ Get(comments', k).created_at = Get(comments, k).created_at]_vars

\* an update carrying only an unrecognized key moved updated_at
C8_Witness ==
    /\ resp.op = "update_comment" /\ resp.status = 200
    /\ DOMAIN resp.data = {"other"}
    /\ resp.body[1].updated_at # resp.body[1].created_at
    /\ Get(comments, resp.id) = resp.body[1]

\* C9 as stated: after a failed save the persisted state differs from the
\* in-memory state
C9_FailedSaveDiffers ==
    SaveFailed(resp) => ~FileHolds(file, tasks, comments)

\* the request checked by C9: its mutation is in the in-memory dicts
Applied(r, ts, cs) ==
    CASE r.op = "create_task" -> Has(ts, r.body[1].id) /\ Get(ts, r.body[1].id) = r.body[1]
      [] r.op = "update_task" ->
            /\ Get(ts, r.id) = r.body[1]
            /\ \A key \in DOMAIN r.data \cap {"title", "description"} :
                  r.body[1][key] = r.data[key]
      [] r.op = "delete_task" ->
            ~Has(ts, r.id) /\ \A i \in DOMAIN cs : cs[i].v.task_id # r.id
      [] r.op = "create_comment" -> Has(cs, r.body[1].id) /\ Get(cs, r.body[1].id) = r.body[1]
      [] r.op = "update_comment" ->
            /\ Get(cs, r.id) = r.body[1]
            /\ \A key \in DOMAIN r.data \cap {"content", "author"} :
                  r.body[1][key] = r.data[key]
      [] r.op = "delete_comment" -> ~Has(cs, r.id)
      [] OTHER -> FALSE

\* C9 amended: a failed save still answers 200 or 201 and keeps the
\* mutation; it is not retried, the file is left unchanged or truncated and
\* only a save changes it, so the file differs from the in-memory state
\* whenever it matched before a request that changed the in-memory state
C9_FailedSaveKept ==
    [][/\ SaveFailed(resp') =>
             /\ resp'.op \in WriteOps
             /\ Succeeded(resp')
             /\ Applied(resp', tasks', comments')
             /\ file' \in {file, Truncated}
             /\ (/\ FileHolds(file, tasks, comments)
                 /\ <<tasks', comments'>> # <<tasks, comments>>)
                => ~FileHolds(file', tasks', comments')
       /\ file' # file => resp'.save \in {"ok", "write_failed"}]_vars

\* the save of a delete failed: the file still holds the deleted task
C9_Witness ==
    /\ resp.op = "delete_task" /\ resp.status = 200
    /\ resp.save = "open_failed"
    /\ file.kind = "json" /\ Len(file.doc.tasks) = 1
    /\ tasks = <<>>

\* C10: a comment just created has created_at equal to updated_at
C10_CreatedEqualsUpdated ==
    (resp.op = "create_comment" /\ resp.status = 201) =>
       resp.body[1].created_at = resp.body[1].updated_at
\* C11: a successful task update changes the title only when the title key
\* is supplied and the description only when the description key is supplied
\* (the empty string included); id and created_at of a task never change;
\* every other task and every comment is left as it was
C11_UpdateTaskFrame ==
    [][/\ (resp'.op = "update_task" /\ resp'.status = 200) =>
             LET id == resp'.id
                 data == resp'.data
             IN  /\ Has(tasks, id) /\ Has(tasks', id)
                 /\ Get(tasks', id).title =
                       IF "title" \in DOMAIN data THEN data["title"]
                       ELSE Get(tasks, id).title
                 /\ Get(tasks', id).description =
                       IF "description" \in DOMAIN data THEN data["description"]
                       ELSE Get(tasks, id).description
                 /\ Len(tasks') = Len(tasks)
                 /\ \A i \in DOMAIN tasks :
                       IF tasks[i].k = id THEN tasks'[i].k = id
                       ELSE tasks'[i] = tasks[i]
                 /\ comments' = comments
       /\ \A k \in Keys(tasks) \cap Keys(tasks') :
             /\ Get(tasks', k).id = Get(tasks, k).id
             /\ Get(tasks', k).created_at = Get(tasks, k).created_at]_vars

\* a description-only update emptied the description of the first of two
\* tasks; its save failed at open, so the file shows the task as it was
C11_Witness ==
    /\ resp.op = "update_task" /\ resp.status = 200
    /\ DOMAIN resp.data = {"description"}
    /\ resp.save = "open_failed"
    /\ Len(tasks) = 2 /\ resp.id = tasks[1].k
    /\ tasks[1].v.description = <<>>
    /\ file.kind = "json" /\ Len(file.doc.tasks) = 2
    /\ Member(file.doc.tasks[1][2], "description") # <<>>
    /\ Member(file.doc.tasks[1][2], "title") = tasks[1].v.title
\* C12: a request answered 400 or 404 leaves both dicts and the file as
\* they were: it saves nothing, and a blank title sent with a description,
\* or a blank content sent with an author, applies neither field and does
\* not refresh updated_at
C12_RejectedChangesNothing ==
    [][resp'.status \in {400, 404} =>
          /\ tasks' = tasks
          /\ comments' = comments
          /\ file' = file
          /\ resp'.save = "none"
          /\ (/\ resp'.op = "update_task"
              /\ DOMAIN resp'.data = {"title", "description"}
              /\ Has(tasks, resp'.id)
              /\ Blank(resp'.data["title"]))
             => Get(tasks', resp'.id) = Get(tasks, resp'.id)
          /\ (/\ resp'.op = "update_comment"
              /\ {"content", "author"} \subseteq DOMAIN resp'.data
              /\ Has(comments, resp'.id)
              /\ Blank(resp'.data["content"]))
             => Get(comments', resp'.id) = Get(comments, resp'.id)]_vars

\* a blank content sent with an author was refused and the comment kept
\* the author it had
C12_Witness ==
    /\ resp.op = "update_comment" /\ resp.status = 400
    /\ {"content", "author"} \subseteq DOMAIN resp.data
    /\ Has(comments, resp.id)
    /\ Get(comments, resp.id).author # resp.data["author"]
    /\ file = SavedFile(tasks, comments)
\* C13: every delete request ends in 200 or 404 and in nothing else, also
\* when two deletes of one id interleave between the existence check and
\* the removal
C13_DeleteOutcomes ==
    \A t \in Threads :
       inflight[t].pc = "done" => inflight[t].status \in {200, 404}
====
